---- MODULE Spec2Model ----
(***************************************************************************)
(* Model of summarization/01-summarization.ipynb: the pipeline             *)
(*   process_sections -> sort_by_topic -> process_summary -> write         *)
(* with its token accounting.                                              *)
(*                                                                         *)
(* Text that comes back from the model service is a sequence of atoms      *)
(* (characters, plus "W", a block of BulkTokens tokens, and the literal    *)
(* "Notes:").  The input transcript only matters through its token count   *)
(* total_length; token k of it is identified with its index k, so a        *)
(* window is the pair <<start, end>> of the slice tokenized_text[start:end].*)
(* The token length of a concatenation is the sum of the token lengths of  *)
(* its parts, which is how the notebook itself accounts for tokens.        *)
(***************************************************************************)
EXTENDS Integers, Sequences, FiniteSets, TLC

VARIABLES
    SECTION_RESPONSE_MAX_TOKENS, \* setting, cell "OpenAI Settings"
    OVERLAP,                     \* setting, cell "OpenAI Settings"
    topics,                      \* args.topics: "None", "auto" or "list"
    generate_summary,            \* args.summary
    total_length,                \* len(tokenized_text) in process_sections
    pc,                          \* position of main()
    i,                           \* loop variable of process_sections
    windows,                     \* slices sent so far, <<start, end>>
    answers,                     \* process_sections: answers
    n_sections,                  \* process_sections: n_sections
    full_notes,
    sorted_notes,
    summary_notes,
    combined_notes,
    written,                     \* TRUE once f.write(combined_notes) ran
    output,                      \* contents of the output file
    calls                        \* requests issued to the service, in order

vars == <<SECTION_RESPONSE_MAX_TOKENS, OVERLAP, topics, generate_summary,
          total_length, pc, i, windows, answers, n_sections, full_notes,
          sorted_notes, summary_notes, combined_notes, written, output, calls>>

----------------------------------------------------------------------------
(* Bounds of the exploration *)

MaxWindows == 3       \* transcript lengths go up to MaxWindows steps (+ slack)
MaxSlack == 1         \* lengths k*step - MaxSlack .. k*step + MaxSlack
MaxSmallBudget == 2   \* besides the shipped settings, section budgets 0..MaxSmallBudget
MaxSmallOverlap == 2  \* besides the shipped OVERLAP, overlaps 0..MaxSmallOverlap

----------------------------------------------------------------------------
(* Program constants *)

ContextSize == 4000
DefaultSectionResponseMaxTokens == 1024
DefaultOverlap == 50

\* len(enc.encode(...)) of the fixed prompt strings under the gpt2 encoding
\* (approximate counts: the vocabulary is not part of the repository; no
\* property below depends on the exact values)
SystemPromptTokens == 6
SectionPromptTokens == 30
TopicPromptAutoTokens == 28
TopicPromptListTokens == 34
SummaryPromptTokens == 37

\* token weight of the atom "W" (a long bullet)
BulkTokens == 1000

Min(a, b) == IF a < b THEN a ELSE b
Max(a, b) == IF a > b THEN a ELSE b

----------------------------------------------------------------------------
(* Text helpers *)

Weight(c) == IF c = "W" THEN BulkTokens ELSE IF c = "Notes:" THEN 2 ELSE 1

\* len(enc.encode(text))
RECURSIVE TokLen(_)
TokLen(text) == IF text = <<>> THEN 0
                ELSE Weight(Head(text)) + TokLen(Tail(text))

\* text.split("\n"): always at least one piece
RECURSIVE Split(_)
Split(text) ==
    IF text = <<>> THEN << <<>> >>
    ELSE IF Head(text) = "\n" THEN << <<>> >> \o Split(Tail(text))
    ELSE LET rest == Split(Tail(text))
         IN  << <<Head(text)>> \o Head(rest) >> \o Tail(rest)

\* line.strip()
RECURSIVE LStrip(_)
LStrip(line) == IF line # <<>> /\ Head(line) \in {" ", "\n"}
                THEN LStrip(Tail(line)) ELSE line

RECURSIVE RStrip(_)
RStrip(line) == IF line # <<>> /\ line[Len(line)] \in {" ", "\n"}
                THEN RStrip(SubSeq(line, 1, Len(line) - 1)) ELSE line

Strip(line) == RStrip(LStrip(line))

\* "\n".join(lines)
RECURSIVE Join(_)
Join(lines) == IF lines = <<>> THEN <<>>
               ELSE IF Len(lines) = 1 THEN Head(lines)
               ELSE Head(lines) \o <<"\n">> \o Join(Tail(lines))

StartsWithDash(line) == line # <<>> /\ Head(line) = "-"

\* the filter of process_sections: keep line if line.startswith("-") or line
RECURSIVE FilterLines(_)
FilterLines(lines) ==
    IF lines = <<>> THEN <<>>
    ELSE LET line == Strip(Head(lines))
         IN  (IF StartsWithDash(line) \/ line # <<>> THEN <<line>> ELSE <<>>)
             \o FilterLines(Tail(lines))

FilterAnswer(answer) == Join(FilterLines(Split(answer)))

\* "Remove leading and trailing blank lines"
RECURSIVE TrimLeading(_)
TrimLeading(t) == IF t # <<>> /\ Head(t) = "\n" THEN TrimLeading(Tail(t)) ELSE t

RECURSIVE TrimTrailing(_)
TrimTrailing(t) == IF t # <<>> /\ t[Len(t)] = "\n"
                   THEN TrimTrailing(SubSeq(t, 1, Len(t) - 1)) ELSE t

TrimBlankEdges(t) == TrimTrailing(TrimLeading(t))

\* the literal "\n\nNotes:\n" of main
NotesSeparator == <<"\n", "\n", "Notes:", "\n">>

\* texts the service may answer with
Responses == { <<"\n", " ", "-", "a", " ", "\n", "\n", "b", "\n">>,
               <<"-", "W">> }


\* the service cuts its answer at max_tokens
RECURSIVE Truncate(_, _)
Truncate(text, max_tokens) ==
    IF text = <<>> \/ Weight(Head(text)) > max_tokens THEN <<>>
    ELSE <<Head(text)>> \o Truncate(Tail(text), max_tokens - Weight(Head(text)))

ServiceAnswers(max_tokens) == { Truncate(r, max_tokens) : r \in Responses }

----------------------------------------------------------------------------
(* process_sections: budget and windowing *)

\* variant: the system prompt is left out of the section budget
SectionLength_NoSystemPrompt(respMax) ==
    ContextSize - respMax - SectionPromptTokens

\* section_length = 4000 - SECTION_RESPONSE_MAX_TOKENS - len(section_prompt_tokens) - len(system_prompt_tokens)
SectionLength(respMax) ==
    ContextSize - respMax - SectionPromptTokens - SystemPromptTokens

section_length == SectionLength(SECTION_RESPONSE_MAX_TOKENS)

\* third argument of range(): section_length - OVERLAP
RangeStep(sl, ov) == sl - ov

step == RangeStep(section_length, OVERLAP)

\* variant: the loop stops one step early
InRange_StopsEarly(k, stop, st) == IF st > 0 THEN k + st < stop ELSE k + st > stop

\* does range(0, stop, st) still yield k ?
InRange(k, stop, st) == IF st > 0 THEN k < stop ELSE k > stop

\* bounds of the Python slice seq[lo:hi] of a sequence of length n
SliceIndex(x, n) == IF x < 0 THEN Max(x + n, 0) ELSE Min(x, n)
SliceBounds(n, lo, hi) ==
    LET s == SliceIndex(lo, n)
        e == SliceIndex(hi, n)
    IN  <<s, Max(s, e)>>

\* the slices the loop of process_sections sends for a text of n tokens
RECURSIVE SectionsFrom(_, _, _, _)
SectionsFrom(k, n, sl, ov) ==
    IF RangeStep(sl, ov) = 0 \/ ~InRange(k, n, RangeStep(sl, ov)) THEN <<>>
    ELSE <<SliceBounds(n, k, k + sl)>> \o SectionsFrom(k + RangeStep(sl, ov), n, sl, ov)

Sections(n, sl, ov) == SectionsFrom(0, n, sl, ov)

\* record of one openai.ChatCompletion.create request
Call(stage, prompt_tokens, max_tokens, ok, answer) ==
    [stage |-> stage, prompt |-> prompt_tokens, max_tokens |-> max_tokens,
     ok |-> ok, answer |-> answer]

----------------------------------------------------------------------------
(* Initial states: settings, command line and transcript length *)

ResponseMaxSettings ==
    {DefaultSectionResponseMaxTokens} \cup
    { ContextSize - SectionPromptTokens - SystemPromptTokens - b : b \in 0..MaxSmallBudget }

OverlapSettings == {DefaultOverlap} \cup (0..MaxSmallOverlap)

Lengths(st) ==
    IF st > 0
    THEN { n \in { k * st + d : k \in 0..MaxWindows, d \in (0 - MaxSlack)..MaxSlack } : n >= 0 }
    ELSE 0..(MaxSlack + 1)

Init ==
    /\ SECTION_RESPONSE_MAX_TOKENS \in ResponseMaxSettings
    /\ OVERLAP \in OverlapSettings
    /\ topics \in {"None", "auto", "list"}
    /\ generate_summary \in BOOLEAN
    /\ total_length \in Lengths(RangeStep(SectionLength(SECTION_RESPONSE_MAX_TOKENS), OVERLAP))
    /\ pc = "sections"
    /\ i = 0
    /\ windows = <<>>
    /\ answers = <<>>
    /\ n_sections = 0
    /\ full_notes = <<>>
    /\ sorted_notes = <<>>
    /\ summary_notes = <<>>
    /\ combined_notes = <<>>
    /\ written = FALSE
    /\ output = <<>>
    /\ calls = <<>>

settings == <<SECTION_RESPONSE_MAX_TOKENS, OVERLAP, topics, generate_summary, total_length>>

----------------------------------------------------------------------------
(* process_sections *)

\* range(0, len(tokenized_text), 0) raises ValueError, which nothing catches
RangeValueError ==
    /\ pc = "sections"
    /\ step = 0
    /\ pc' = "crashed"
    /\ UNCHANGED <<settings, i, windows, answers, n_sections, full_notes,
                   sorted_notes, summary_notes, combined_notes, written, output, calls>>

SectionPrompt(w) == SectionPromptTokens + SystemPromptTokens + (w[2] - w[1])

\* variant: the newest answer is put in front of the earlier ones
SectionIteration_Prepend ==
    /\ pc = "sections"
    /\ step # 0
    /\ InRange(i, total_length, step)
    /\ \E answer \in ServiceAnswers(SECTION_RESPONSE_MAX_TOKENS) :
         LET w == SliceBounds(total_length, i, i + section_length)
         IN  /\ windows' = Append(windows, w)
             /\ calls' = Append(calls, Call("section", SectionPrompt(w),
                                            SECTION_RESPONSE_MAX_TOKENS, TRUE, answer))
             /\ answers' = <<FilterAnswer(answer)>> \o answers
    /\ n_sections' = n_sections + 1
    /\ i' = i + step
    /\ UNCHANGED <<settings, pc, full_notes, sorted_notes, summary_notes,
                   combined_notes, written, output>>

\* one iteration of the loop, the service answers
SectionIteration ==
    /\ pc = "sections"
    /\ step # 0
    /\ InRange(i, total_length, step)
    /\ \E answer \in ServiceAnswers(SECTION_RESPONSE_MAX_TOKENS) :
         LET w == SliceBounds(total_length, i, i + section_length)
         IN  /\ windows' = Append(windows, w)
             /\ calls' = Append(calls, Call("section", SectionPrompt(w),
                                            SECTION_RESPONSE_MAX_TOKENS, TRUE, answer))
             /\ answers' = Append(answers, FilterAnswer(answer))
    /\ n_sections' = n_sections + 1
    /\ i' = i + step
    /\ UNCHANGED <<settings, pc, full_notes, sorted_notes, summary_notes,
                   combined_notes, written, output>>

\* variant: the failure is swallowed and the loop goes on with an empty answer
SectionIterationFails_Swallowed ==
    /\ pc = "sections"
    /\ step # 0
    /\ InRange(i, total_length, step)
    /\ LET w == SliceBounds(total_length, i, i + section_length)
       IN  /\ windows' = Append(windows, w)
           /\ calls' = Append(calls, Call("section", SectionPrompt(w),
                                          SECTION_RESPONSE_MAX_TOKENS, FALSE, <<>>))
    /\ answers' = Append(answers, <<>>)
    /\ n_sections' = n_sections + 1
    /\ i' = i + step
    /\ UNCHANGED <<settings, pc, full_notes, sorted_notes, summary_notes,
                   combined_notes, written, output>>

\* one iteration of the loop, the service reports a failure: sys.exit(1)
SectionIterationFails ==
    /\ pc = "sections"
    /\ step # 0
    /\ InRange(i, total_length, step)
    /\ LET w == SliceBounds(total_length, i, i + section_length)
       IN  /\ windows' = Append(windows, w)
           /\ calls' = Append(calls, Call("section", SectionPrompt(w),
                                          SECTION_RESPONSE_MAX_TOKENS, FALSE, <<>>))
    /\ pc' = "aborted"
    /\ UNCHANGED <<settings, i, answers, n_sections, full_notes, sorted_notes,
                   summary_notes, combined_notes, written, output>>

\* the loop is exhausted: full_notes = '\n'.join(answers)
SectionsReturn ==
    /\ pc = "sections"
    /\ step # 0
    /\ ~InRange(i, total_length, step)
    /\ full_notes' = Join(answers)
    /\ pc' = "topic"
    /\ UNCHANGED <<settings, i, windows, answers, n_sections, sorted_notes,
                   summary_notes, combined_notes, written, output, calls>>

----------------------------------------------------------------------------
(* sort_by_topic *)

TopicPromptTokens(t) == IF t = "auto" THEN TopicPromptAutoTokens ELSE TopicPromptListTokens

\* topic_length = 4000 - len(full_notes_tokens) - len(topic_prompt_tokens) - len(system_prompt_tokens)
TopicLength(notes, t) ==
    ContextSize - TokLen(notes) - TopicPromptTokens(t) - SystemPromptTokens

TopicPrompt(notes, t) == TopicPromptTokens(t) + SystemPromptTokens + TokLen(notes)

\* topics is None: "Skip sorting notes"
SortByTopicSkip ==
    /\ pc = "topic"
    /\ topics = "None"
    /\ sorted_notes' = full_notes
    /\ pc' = "summary"
    /\ UNCHANGED <<settings, i, windows, answers, n_sections, full_notes,
                   summary_notes, combined_notes, written, output, calls>>

SortByTopic ==
    /\ pc = "topic"
    /\ topics # "None"
    /\ \E answer \in ServiceAnswers(TopicLength(full_notes, topics)) :
           /\ calls' = Append(calls, Call("topic", TopicPrompt(full_notes, topics),
                                          TopicLength(full_notes, topics), TRUE, answer))
           /\ sorted_notes' = TrimBlankEdges(answer)
    /\ pc' = "summary"
    /\ UNCHANGED <<settings, i, windows, answers, n_sections, full_notes,
                   summary_notes, combined_notes, written, output>>

SortByTopicFails ==
    /\ pc = "topic"
    /\ topics # "None"
    /\ calls' = Append(calls, Call("topic", TopicPrompt(full_notes, topics),
                                   TopicLength(full_notes, topics), FALSE, <<>>))
    /\ pc' = "aborted"
    /\ UNCHANGED <<settings, i, windows, answers, n_sections, full_notes,
                   sorted_notes, summary_notes, combined_notes, written, output>>

----------------------------------------------------------------------------
(* process_summary and the assembly in main *)

\* summary_length = 4000 - len(tokenized_text) - len(summary_prompt_tokens) - len(system_prompt_tokens)
SummaryLength(notes) ==
    ContextSize - TokLen(notes) - SummaryPromptTokens - SystemPromptTokens

SummaryPrompt(notes) == SummaryPromptTokens + SystemPromptTokens + TokLen(notes)

\* variant: notes and summary swapped
Combine_NotesFirst(summary, notes) == notes \o NotesSeparator \o summary

\* f"{summary_notes}\n\nNotes:\n{sorted_notes}"
Combine(summary, notes) == summary \o NotesSeparator \o notes

ProcessSummary ==
    /\ pc = "summary"
    /\ generate_summary
    /\ \E answer \in ServiceAnswers(SummaryLength(sorted_notes)) :
           /\ calls' = Append(calls, Call("summary", SummaryPrompt(sorted_notes),
                                          SummaryLength(sorted_notes), TRUE, answer))
           /\ summary_notes' = TrimBlankEdges(answer)
           /\ combined_notes' = Combine(TrimBlankEdges(answer), sorted_notes)
    /\ pc' = "write"
    /\ UNCHANGED <<settings, i, windows, answers, n_sections, full_notes,
                   sorted_notes, written, output>>

ProcessSummaryFails ==
    /\ pc = "summary"
    /\ generate_summary
    /\ calls' = Append(calls, Call("summary", SummaryPrompt(sorted_notes),
                                   SummaryLength(sorted_notes), FALSE, <<>>))
    /\ pc' = "aborted"
    /\ UNCHANGED <<settings, i, windows, answers, n_sections, full_notes,
                   sorted_notes, summary_notes, combined_notes, written, output>>

\* else: combined_notes = sorted_notes
NoSummary ==
    /\ pc = "summary"
    /\ ~generate_summary
    /\ combined_notes' = sorted_notes
    /\ pc' = "write"
    /\ UNCHANGED <<settings, i, windows, answers, n_sections, full_notes,
                   sorted_notes, summary_notes, written, output, calls>>

----------------------------------------------------------------------------
(* write_output_to_file *)

WriteOutput ==
    /\ pc = "write"
    /\ written' = TRUE
    /\ output' = combined_notes
    /\ pc' = "done"
    /\ UNCHANGED <<settings, i, windows, answers, n_sections, full_notes,
                   sorted_notes, summary_notes, combined_notes, calls>>

\* open() or write() raises: sys.exit(1)
WriteOutputFails ==
    /\ pc = "write"
    /\ pc' = "aborted"
    /\ UNCHANGED <<settings, i, windows, answers, n_sections, full_notes,
                   sorted_notes, summary_notes, combined_notes, written, output, calls>>

Next ==
    \/ RangeValueError
    \/ SectionIteration
    \/ SectionIterationFails
    \/ SectionsReturn
    \/ SortByTopicSkip
    \/ SortByTopic
    \/ SortByTopicFails
    \/ ProcessSummary
    \/ ProcessSummaryFails
    \/ NoSummary
    \/ WriteOutput
    \/ WriteOutputFails

Spec == Init /\ [][Next]_vars

TypeOK ==
    /\ pc \in {"sections", "topic", "summary", "write", "done", "aborted", "crashed"}
    /\ i \in Nat
    /\ n_sections = Len(answers)
    /\ written \in BOOLEAN

----------------------------------------------------------------------------
(* Properties *)

ValidWindowConfig == 0 <= OVERLAP /\ OVERLAP < section_length

WindowLen(w) == w[2] - w[1]

IsSectionCall(c) == c.stage = "section"
SectionCalls == SelectSeq(calls, IsSectionCall)
IsTopicCall(c) == c.stage = "topic"
IsSummaryCall(c) == c.stage = "summary"

\* C1: for every model invocation of any stage, prompt tokens (wrapper +
\* system preamble + payload) <= 4000 - response-token cap of that invocation;
\* every section window satisfies window + wrapper + system + cap <= 4000,
\* with cap = 1024 under the shipped settings.
C1_PromptWithinContext ==
    /\ \A k \in DOMAIN calls : calls[k].prompt <= ContextSize - calls[k].max_tokens
    /\ \A k \in DOMAIN windows :
          /\ WindowLen(windows[k]) + SectionPromptTokens + SystemPromptTokens
                 + SECTION_RESPONSE_MAX_TOKENS <= ContextSize
          /\ SECTION_RESPONSE_MAX_TOKENS = DefaultSectionResponseMaxTokens
                 => WindowLen(windows[k]) + SectionPromptTokens + SystemPromptTokens
                        + 1024 <= 4000

\* a run under the shipped settings that sent a full window, a short one,
\* a topic request and a summary request
C1_Witness ==
    /\ SECTION_RESPONSE_MAX_TOKENS = DefaultSectionResponseMaxTokens
    /\ OVERLAP = DefaultOverlap
    /\ Len(windows) >= 2
    /\ WindowLen(windows[1]) = section_length
    /\ WindowLen(windows[Len(windows)]) < section_length
    /\ \E k \in DOMAIN calls : IsTopicCall(calls[k])
    /\ \E k \in DOMAIN calls : IsSummaryCall(calls[k])

\* C2: in the topic-sort and summary stages, a response budget <= 0 aborts
\* the run: the model is not invoked for that stage and nothing is written.
C2_BudgetExhaustionAborts ==
    /\ \A k \in DOMAIN calls :
          (IsTopicCall(calls[k]) \/ IsSummaryCall(calls[k])) => calls[k].max_tokens >= 1
    /\ written =>
          /\ topics # "None" => TopicLength(full_notes, topics) >= 1
          /\ generate_summary => SummaryLength(sorted_notes) >= 1

\* windows that contain token j
WindowsHolding(j) == { k \in DOMAIN windows : windows[k][1] <= j /\ j < windows[k][2] }

\* token j is among the first OVERLAP tokens of a window that has a predecessor
Overlapped(j) ==
    \E k \in 2..Len(windows) : windows[k][1] <= j /\ j < windows[k][1] + OVERLAP

\* C3: with 0 <= overlap < budget and L >= 1, once windowing is over every
\* index of [0, L) lies in a window, indices outside the overlapped regions
\* lie in exactly one, and the last window ends at L.
C3_WindowingCoverage ==
    (pc = "topic" /\ ValidWindowConfig /\ total_length >= 1) =>
        /\ Len(windows) >= 1
        /\ \A j \in 0..(total_length - 1) :
              /\ WindowsHolding(j) # {}
              /\ ~Overlapped(j) => Cardinality(WindowsHolding(j)) = 1
        /\ windows[Len(windows)][2] = total_length

\* windowing is over, several windows, a real overlap, a short last window
C3_Witness ==
    /\ pc = "topic"
    /\ ValidWindowConfig
    /\ OVERLAP >= 1
    /\ Len(windows) >= 3
    /\ WindowLen(windows[Len(windows)]) < section_length
    /\ \E j \in 0..(total_length - 1) : Cardinality(WindowsHolding(j)) = 2

\* C4: windowing stops once an emitted window reaches the end of the
\* sequence: no window follows a window that ended at L; for L = 4500,
\* budget 3000, overlap 50 the windows are [0,3000) and [2950,4500).
C4_StopsAtEnd ==
    /\ ValidWindowConfig =>
          \A k \in DOMAIN windows : windows[k][2] = total_length => k = Len(windows)
    /\ Sections(4500, 3000, 50) = << <<0, 3000>>, <<2950, 4500>> >>

\* index range of the last / first n tokens of window w
LastTokens(w, n) == <<Max(w[1], w[2] - n), w[2]>>
FirstTokens(w, n) == <<w[1], Min(w[2], w[1] + n)>>
SameTokens(r1, r2) == r1 = r2 \/ (r1[1] = r1[2] /\ r2[1] = r2[2])

\* C5: consecutive windows satisfy start_(i+1) = start_i + (budget - overlap)
\* and the last `overlap` tokens of w_i are the first `overlap` tokens of w_(i+1).
C5_ConsecutiveOverlap ==
    ValidWindowConfig =>
        \A k \in 1..(Len(windows) - 1) :
            /\ windows[k + 1][1] = windows[k][1] + (section_length - OVERLAP)
            /\ SameTokens(LastTokens(windows[k], OVERLAP),
                          FirstTokens(windows[k + 1], OVERLAP))

\* C9: every emitted window has 0 <= start < L and 1 <= length <= budget,
\* only the final window may be shorter than budget; for L = 0 there is no
\* window, no invocation and full_notes is empty.
C9_WindowInvariant ==
    ValidWindowConfig =>
        /\ \A k \in DOMAIN windows :
              /\ 0 <= windows[k][1] /\ windows[k][1] < total_length
              /\ 1 <= WindowLen(windows[k]) /\ WindowLen(windows[k]) <= section_length
              /\ WindowLen(windows[k]) < section_length => k = Len(windows)
        /\ total_length = 0 => (windows = <<>> /\ SectionCalls = <<>> /\ full_notes = <<>>)

\* C10: with overlap >= budget the windowing fails with a configuration
\* error before any window or invocation; it does not return zero windows
\* for a non-empty token sequence.
C10_InvalidConfigRejected ==
    (OVERLAP >= section_length /\ total_length >= 1 /\ pc # "sections") =>
        (pc = "crashed" /\ windows = <<>> /\ calls = <<>>)

\* C6: once an invocation reports a service failure the run is aborted: the
\* failed request is the last request ever issued (no retry, no further
\* invocation) and the output file is never written.
C6_FailFast ==
    \A k \in DOMAIN calls :
        ~calls[k].ok => (k = Len(calls) /\ pc = "aborted" /\ ~written)

\* a failure after at least one successful section and a successful topic sort
C6_Witness ==
    /\ Len(calls) >= 3
    /\ ~calls[Len(calls)].ok
    /\ IsSummaryCall(calls[Len(calls)])
    /\ IsTopicCall(calls[Len(calls) - 1])
    /\ pc = "aborted"

\* the filtered answers of the section requests, in request order
RECURSIVE FilteredAnswers(_)
FilteredAnswers(cs) ==
    IF cs = <<>> THEN <<>>
    ELSE <<FilterAnswer(Head(cs).answer)>> \o FilteredAnswers(Tail(cs))

StageRank(c) == IF IsSectionCall(c) THEN 1 ELSE IF IsTopicCall(c) THEN 2 ELSE 3

\* C7: requests are issued in the order window 0, window 1, ..., then at most
\* one topic sort, then at most one summary, then the write; the topic sort
\* is not issued before every window was answered, and full_notes is the
\* filtered answers in window order.
C7_StageOrder ==
    /\ \A k \in 1..(Len(calls) - 1) : StageRank(calls[k]) <= StageRank(calls[k + 1])
    /\ Cardinality({ k \in DOMAIN calls : IsTopicCall(calls[k]) }) <= 1
    /\ Cardinality({ k \in DOMAIN calls : IsSummaryCall(calls[k]) }) <= 1
    /\ Len(SectionCalls) = Len(windows)
    /\ \A k \in DOMAIN windows :
          /\ IsSectionCall(calls[k])
          /\ windows[k][1] = (k - 1) * step
          /\ calls[k].prompt = SectionPrompt(windows[k])
    /\ (\E k \in DOMAIN calls : ~IsSectionCall(calls[k])) =>
          /\ ~InRange(Len(windows) * step, total_length, step)
          /\ Len(answers) = Len(windows)
          /\ \A k \in DOMAIN windows : calls[k].ok
    /\ pc \in {"topic", "summary", "write", "done"} =>
          full_notes = Join(FilteredAnswers(SectionCalls))
    /\ written => (pc = "done" /\ \A k \in DOMAIN calls : calls[k].ok)
    /\ (written /\ topics # "None") => \E k \in DOMAIN calls : IsTopicCall(calls[k])
    /\ (written /\ generate_summary) => \E k \in DOMAIN calls : IsSummaryCall(calls[k])

\* a finished run with three windows answered differently, topic sort and summary
C7_Witness ==
    /\ pc = "done"
    /\ written
    /\ Len(windows) >= 3
    /\ calls[1].answer # calls[2].answer
    /\ \E k \in DOMAIN calls : IsTopicCall(calls[k])
    /\ \E k \in DOMAIN calls : IsSummaryCall(calls[k])

\* C8: the written document is summary + "\n\nNotes:\n" + sorted notes when
\* the summary flag is set and the sorted notes alone otherwise; without a
\* topic specification the sorted notes are full_notes and no topic-sort
\* request is made.
C8_OutputAssembly ==
    written =>
        /\ generate_summary =>
              /\ output = summary_notes \o <<"\n", "\n", "Notes:", "\n">> \o sorted_notes
              /\ summary_notes = TrimBlankEdges(calls[Len(calls)].answer)
        /\ ~generate_summary => output = sorted_notes
        /\ topics = "None" =>
              /\ sorted_notes = full_notes
              /\ \A k \in DOMAIN calls : ~IsTopicCall(calls[k])

\* a written document with a non-empty summary and non-empty notes, no topic sort
C8_Witness ==
    /\ written
    /\ generate_summary
    /\ topics = "None"
    /\ summary_notes # <<>>
    /\ full_notes # <<>>
    /\ Len(windows) >= 2

====
